---- MODULE Spec2Model ----
(***************************************************************************)
(* Model of flask_smores.py (the Smores extension, CaseInsensitiveDict,    *)
(* make_schema_dict, use_input_schema / use_output_schema) and of          *)
(* resources/store.py (the Store and StoreList views).                     *)
(*                                                                         *)
(* Strings whose case matters are sequences of one-character strings, so   *)
(* that str.lower() is computed character by character.                    *)
(***************************************************************************)
EXTENDS Integers, Sequences, FiniteSets, TLC

VARIABLES
    _store,      \* CaseInsensitiveDict._store: OrderedDict lower -> (key, value)
    cidLog,      \* history of the __setitem__/__delitem__ calls made on it
    schemaDefs,  \* the marshmallow schemas: schema -> its fields, in order
    schemaCall,  \* the arguments of the make_schema_dict call under study
    schemaOut,   \* its outcome
    app,         \* the Flask application: config, url_map, view_functions, _api_docs
    docsPc,      \* cache_api_docs: 0 before it runs, then the rule scanned next
    table,       \* the committed rows of StoreModel
    session,     \* db.session: the objects added or deleted and not yet committed
    storeReq,    \* the store request being handled and where its handler stands
    lastReq,     \* the last request completed: its response and the rows before it
    storeLog,    \* history: the stores the responses reported created and deleted
    request,     \* flask.request: method, headers, cookies, args, view_args, body
    func,        \* the wrapped view function: whether it declares input_obj
    viewPc,      \* decorated_view: "idle", "dispatch", "merged", "valid", "done"
    data,        \* the CaseInsensitiveDict handed to schema.load
    loaded,      \* the outcome of schema.load(data)
    response,    \* what the request was answered with
    viewCalls    \* the calls made of the wrapped view function, in order

cidVars == <<_store, cidLog>>
schemaVars == <<schemaDefs, schemaCall, schemaOut>>
docsVars == <<app, docsPc>>
storeVars == <<table, session, storeReq, lastReq, storeLog>>
viewVars == <<request, func, viewPc, data, loaded, response, viewCalls>>
vars == <<_store, cidLog, schemaDefs, schemaCall, schemaOut, app, docsPc,
          table, session, storeReq, lastReq, storeLog,
          request, func, viewPc, data, loaded, response, viewCalls>>

\* Python's None, and the outcome of a lookup that raises KeyError.
None == "None"
KeyError == "KeyError"

-----------------------------------------------------------------------------
(* str.lower() *)

LowerChar(c) ==
    CASE c = "A" -> "a"
      [] c = "B" -> "b"
      [] c = "C" -> "c"
      [] OTHER -> c

lower(key) == [i \in 1..Len(key) |-> LowerChar(key[i])]

\* k1.lower() == k2.lower()
CaseEqual(k1, k2) == lower(k1) = lower(k2)

-----------------------------------------------------------------------------
(* collections.OrderedDict, as a sequence of <<k, v>> pairs with distinct k *)

OdHas(od, k) == \E i \in 1..Len(od) : od[i][1] = k

OdIndex(od, k) == CHOOSE i \in 1..Len(od) : od[i][1] = k

OdGet(od, k) == IF OdHas(od, k) THEN od[OdIndex(od, k)][2] ELSE KeyError

\* od[k] = v: an existing key keeps its position, a new key goes last
OdSet(od, k, v) ==
    IF OdHas(od, k)
    THEN [od EXCEPT ![OdIndex(od, k)] = <<k, v>>]
    ELSE Append(od, <<k, v>>)

\* del od[k] (the caller has checked that k is present)
OdDel(od, k) ==
    LET i == OdIndex(od, k)
    IN  SubSeq(od, 1, i - 1) \o SubSeq(od, i + 1, Len(od))

-----------------------------------------------------------------------------
(* class CaseInsensitiveDict *)

\* mutant: the entry is filed under the key as given, not under key.lower()
SetItemNoLower(store, key, value) == OdSet(store, key, <<key, value>>)

\* mutant: the lowercased key is stored alongside the value
SetItemForgetsCase(store, key, value) ==
    OdSet(store, lower(key), <<lower(key), value>>)

\* __setitem__: self._store[key.lower()] = (key, value)
SetItem(store, key, value) == OdSet(store, lower(key), <<key, value>>)

\* __getitem__: self._store[key.lower()][1]
GetItem(store, key) ==
    IF OdHas(store, lower(key)) THEN OdGet(store, lower(key))[2] ELSE KeyError

\* __contains__ (MutableMapping): try self[key], False on KeyError
Contains(store, key) == GetItem(store, key) # KeyError

\* __delitem__: del self._store[key.lower()]; KeyError leaves the store alone
DelItem(store, key) ==
    IF OdHas(store, lower(key)) THEN OdDel(store, lower(key)) ELSE store

\* __iter__: (casedkey for casedkey, mappedvalue in self._store.values())
Iter(store) == [i \in 1..Len(store) |-> store[i][2][1]]

\* __len__: len(self._store)
CidLen(store) == Len(store)

-----------------------------------------------------------------------------
(* Python dicts as functions; d.update(e) lets e win *)

EmptyDict == [x \in {} |-> None]

Update(d, e) == e @@ d

-----------------------------------------------------------------------------
(* marshmallow schemas and make_schema_dict *)

\* marshmallow.missing
Missing == "<marshmallow.missing>"

\* a field that is not fields.Nested: reading field.nested raises AttributeError
NoNested == "<no attribute nested>"

\* fields.Nested('self'): field.nested is a string, never resolved by this code
SelfName == "self"

SchemaIds == {"S1", "S2"}

\* field.__class__.__name__
FieldType(field) == IF field.nested = NoNested THEN "String" ELSE "Nested"

\* field.data_key or field_name
FieldKey(field) == IF field.data_key = None THEN field.name ELSE field.data_key

\* a call returns a dict (ok) or raises AttributeError
Returned(d) == [ok |-> TRUE, dict |-> d]
RaisedAttributeError == [ok |-> FALSE, dict |-> EmptyDict]

\* mutant: the depth test admits current_depth = max_depth
WalksNestedOffByOne(current_depth, max_depth) == current_depth <= max_depth

\* line 158: if current_depth < max_depth
WalksNested(current_depth, max_depth) == current_depth < max_depth

RECURSIVE make_schema_dict(_, _, _, _)
RECURSIVE SchemaDictOver(_, _, _, _, _)

\* lines 148-168: the field_dict of one field
FieldDict(field, is_input, current_depth, max_depth) ==
    LET typed == ("type" :> FieldType(field))
        sub == IF field.nested # NoNested /\ WalksNested(current_depth, max_depth)
               THEN make_schema_dict(field.nested, is_input,
                                     current_depth + 1, max_depth)
               ELSE RaisedAttributeError
        \* an AttributeError from field.nested or from the nested call is passed
        nested == IF field.nested # NoNested
                     /\ WalksNested(current_depth, max_depth) /\ sub.ok
                  THEN Update(typed, "schema" :> sub.dict)
                  ELSE typed
        req == IF is_input THEN Update(nested, "required" :> field.required)
               ELSE nested
        mis == IF field.missing # Missing
               THEN Update(req, "missing" :> field.missing) ELSE req
        def == IF field.default # Missing
               THEN Update(mis, "default" :> field.default) ELSE mis
    IN  Update(def, field.metadata)

\* the loop of line 147 over the first n fields
SchemaDictOver(fields, n, is_input, current_depth, max_depth) ==
    IF n = 0 THEN EmptyDict
    ELSE Update(SchemaDictOver(fields, n - 1, is_input, current_depth, max_depth),
                FieldKey(fields[n]) :>
                    FieldDict(fields[n], is_input, current_depth, max_depth))

\* make_schema_dict(schema, is_input, current_depth, max_depth); a schema that
\* is not a Schema (class or instance) has no .fields: AttributeError
make_schema_dict(schema, is_input, current_depth, max_depth) ==
    IF schema \notin SchemaIds THEN RaisedAttributeError
    ELSE Returned(SchemaDictOver(schemaDefs[schema].fields,
                                 Len(schemaDefs[schema].fields),
                                 is_input, current_depth, max_depth))

\* the number of levels of nested 'schema' entries in a documentation tree
RECURSIVE SchemaLevels(_)
SchemaLevels(tree) ==
    LET below == {SchemaLevels(tree[k]["schema"]) + 1 :
                     k \in {k2 \in DOMAIN tree : "schema" \in DOMAIN tree[k2]}}
    IN  IF below = {} THEN 0 ELSE CHOOSE m \in below : \A n \in below : n <= m

-----------------------------------------------------------------------------
(* The decorators' marks on a view function, and class Smores *)

\* a view function no decorator has touched; __doc__ is its docstring, as lines
PlainView(doc) ==
    [_uses_smores |-> FALSE, _input_schema |-> None, _output_schema |-> None,
     __doc__ |-> doc]

\* use_input_schema(schema)(func): lines 185-186; functools.wraps carries the
\* attributes of func over to decorated_view
use_input_schema(schema, f) ==
    [f EXCEPT !._uses_smores = TRUE, !._input_schema = schema]

\* use_output_schema(schema)(func): lines 261-263
use_output_schema(schema, f) ==
    [f EXCEPT !._uses_smores = TRUE, !._output_schema = schema]

SMORES_RECURSION_DEPTH == 5

\* config.setdefault(key, value)
SetDefault(config, key, value) ==
    IF key \in DOMAIN config THEN config ELSE Update(config, key :> value)

ApiDocsView == PlainView(<<>>)

\* Smores.init_app, lines 24-35: the defaults, and with SMORES_CACHE_API_DOCS
\* the documentation route (cache_api_docs is then run before the first request)
init_app(a) ==
    LET config == SetDefault(SetDefault(SetDefault(a.config,
                      "SMORES_CACHE_API_DOCS", TRUE),
                      "SMORES_API_DOCS_RULE", "/api_docs"),
                      "SMORES_RECURSION_DEPTH", SMORES_RECURSION_DEPTH)
    IN  IF config["SMORES_CACHE_API_DOCS"]
        THEN [a EXCEPT !.config = config,
                       !.url_map = Append(@, [rule |-> config["SMORES_API_DOCS_RULE"],
                                              endpoint |-> "smores_api_docs",
                                              methods |-> {"GET", "HEAD", "OPTIONS"}]),
                       !.view_functions = Update(@, "smores_api_docs" :> ApiDocsView)]
        ELSE [a EXCEPT !.config = config]

possible_methods == <<"GET", "POST", "PUT", "PATCH", "DELETE">>

\* line 42: [x for x in possible_methods if x in rule.methods]
RECURSIVE MethodsOf(_, _)
MethodsOf(rule, n) ==
    IF n = 0 THEN <<>>
    ELSE IF possible_methods[n] \in rule.methods
         THEN Append(MethodsOf(rule, n - 1), possible_methods[n])
         ELSE MethodsOf(rule, n - 1)

\* str.strip() of one line: leading and trailing blanks go
RECURSIVE LStrip(_)
LStrip(line) ==
    IF line # <<>> /\ Head(line) = " " THEN LStrip(Tail(line)) ELSE line

RECURSIVE RStrip(_)
RStrip(line) ==
    IF line # <<>> /\ line[Len(line)] = " "
    THEN RStrip(SubSeq(line, 1, Len(line) - 1)) ELSE line

Strip(line) == RStrip(LStrip(line))

\* line 45: ' '.join(x.strip() for x in lines)
RECURSIVE JoinStripped(_)
JoinStripped(lines) ==
    IF lines = <<>> THEN <<>>
    ELSE IF Len(lines) = 1 THEN Strip(lines[1])
    ELSE Strip(lines[1]) \o <<" ">> \o JoinStripped(Tail(lines))

\* lines 43-52: the doc_dict of a view function
DocDict(view_func, config) ==
    LET d0 == IF view_func.__doc__ # <<>>
              THEN "description" :> JoinStripped(view_func.__doc__)
              ELSE EmptyDict
        d1 == IF view_func._input_schema # None
              THEN Update(d0, "inputs" :>
                       make_schema_dict(view_func._input_schema, TRUE, 0,
                                        config["SMORES_RECURSION_DEPTH"]).dict)
              ELSE d0
        d2 == IF view_func._input_schema # None
                 /\ schemaDefs[view_func._input_schema].smores_example # None
              THEN Update(d1, "example" :>
                       schemaDefs[view_func._input_schema].smores_example)
              ELSE d1
    IN  IF view_func._output_schema # None
        THEN Update(d2, "outputs" :>
                 make_schema_dict(view_func._output_schema, FALSE, 0,
                                  config["SMORES_RECURSION_DEPTH"]).dict)
        ELSE d2

\* mutant: the rule's entry is replaced by the one method
SetMethodDocsOverwrites(docs, rule, method, doc_dict) ==
    Update(docs, rule :> (method :> doc_dict))

\* lines 54-57: docs[rule][method] = doc_dict, on KeyError docs[rule] = {method: doc_dict}
SetMethodDocs(docs, rule, method, doc_dict) ==
    IF rule \in DOMAIN docs
    THEN [docs EXCEPT ![rule] = Update(@, method :> doc_dict)]
    ELSE Update(docs, rule :> (method :> doc_dict))

\* line 53: for method in methods
RECURSIVE SetMethodsDocs(_, _, _, _, _)
SetMethodsDocs(docs, rule, methods, n, doc_dict) ==
    IF n = 0 THEN docs
    ELSE SetMethodDocs(SetMethodsDocs(docs, rule, methods, n - 1, doc_dict),
                       rule, methods[n], doc_dict)

\* lines 40-57: the body of the loop over app.url_map.iter_rules()
ScanRule(a, docs, rule) ==
    LET view_func == a.view_functions[rule.endpoint]
        methods == MethodsOf(rule, Len(possible_methods))
    IN  IF view_func._uses_smores
        THEN SetMethodsDocs(docs, rule.rule, methods, Len(methods),
                            DocDict(view_func, a.config))
        ELSE docs

\* cache_api_docs over the first n rules, starting from app._api_docs = {}
RECURSIVE ScanRules(_, _)
ScanRules(a, n) ==
    IF n = 0 THEN EmptyDict
    ELSE ScanRule(a, ScanRules(a, n - 1), a.url_map[n])

\* app._api_docs once cache_api_docs has run (before the first request)
cache_api_docs(a) ==
    [a EXCEPT !.has_api_docs = TRUE, !._api_docs = ScanRules(a, Len(a.url_map))]

\* Flask(...) with the user's configuration; app._api_docs is not an attribute yet
NewApp(config, url_map, view_functions) ==
    [config |-> config, url_map |-> url_map, view_functions |-> view_functions,
     has_api_docs |-> FALSE, _api_docs |-> EmptyDict]

-----------------------------------------------------------------------------
(* use_input_schema: the request locations and decorated_view *)

\* a request location is a sequence of <<key, value>> pairs with distinct keys
\* d.get(key) of a dict (cookies, args, view_args, the JSON object): exact key
DictGet(pairs, key) ==
    IF \E i \in 1..Len(pairs) : pairs[i][1] = key
    THEN pairs[CHOOSE i \in 1..Len(pairs) : pairs[i][1] = key][2]
    ELSE None

\* request.headers.get(key): header names compare case-insensitively and the
\* first header of that name is the one returned
HeadersGet(pairs, key) ==
    LET hits == {i \in 1..Len(pairs) : lower(pairs[i][1]) = lower(key)}
    IN  IF hits = {} THEN None
        ELSE pairs[CHOOSE i \in hits : \A j \in hits : i <= j][2]

\* mutant: 'path' and 'query' have each other's request attribute
REQUEST_ATTR_MAP_Swapped(found_in) ==
    CASE found_in = "path" -> "args"
      [] found_in = "query" -> "view_args"
      [] found_in = "header" -> "headers"
      [] found_in = "cookie" -> "cookies"

\* lines 60-65
REQUEST_ATTR_MAP(found_in) ==
    CASE found_in = "path" -> "view_args"
      [] found_in = "query" -> "args"
      [] found_in = "header" -> "headers"
      [] found_in = "cookie" -> "cookies"

\* getattr(request, attr).get(key)
AttrGet(req, attr, key) ==
    IF attr = "headers" THEN HeadersGet(req[attr], key) ELSE DictGet(req[attr], key)

\* MutableMapping.update(other): for key in other: self[key] = other[key]
RECURSIVE UpdateFrom(_, _, _, _, _)
UpdateFrom(store, req, attr, pairs, n) ==
    IF n = 0 THEN store
    ELSE SetItem(UpdateFrom(store, req, attr, pairs, n - 1),
                 pairs[n][1],
                 IF attr = "headers" THEN HeadersGet(pairs, pairs[n][1])
                 ELSE DictGet(pairs, pairs[n][1]))

JsonBodyKey == <<"json_body">>

\* lines 199-206: the json dict of the request
JsonOf(req) ==
    IF req.method \in {"POST", "PUT", "PATCH"}
    THEN IF req.body.kind = "dict" THEN req.body.pairs
         ELSE <<<<JsonBodyKey, req.body.value>>>>
    ELSE <<>>

\* request.get_json(force=True) raises BadRequest on a body that is not JSON
BodyUnreadable(req) ==
    req.method \in {"POST", "PUT", "PATCH"} /\ req.body.kind = "invalid"

\* mutant: the path is merged before the query string
OrdinaryMergePathFirst(req) ==
    LET d1 == UpdateFrom(<<>>, req, "headers", req.headers, Len(req.headers))
        d2 == UpdateFrom(d1, req, "cookies", req.cookies, Len(req.cookies))
        d3 == UpdateFrom(d2, req, "view_args", req.view_args, Len(req.view_args))
        d4 == UpdateFrom(d3, req, "args", req.args, Len(req.args))
    IN  UpdateFrom(d4, req, "json", JsonOf(req), Len(JsonOf(req)))

\* lines 194-211: headers, cookies, args, view_args, then the json dict
OrdinaryMerge(req) ==
    LET d1 == UpdateFrom(<<>>, req, "headers", req.headers, Len(req.headers))
        d2 == UpdateFrom(d1, req, "cookies", req.cookies, Len(req.cookies))
        d3 == UpdateFrom(d2, req, "args", req.args, Len(req.args))
        d4 == UpdateFrom(d3, req, "view_args", req.view_args, Len(req.view_args))
    IN  UpdateFrom(d4, req, "json", JsonOf(req), Len(JsonOf(req)))

FoundInPlaces == {"path", "query", "header", "cookie", "json"}

\* lines 187-190: found_ins, as <<field_name, found_in>> pairs in field order
RECURSIVE FoundIns(_, _)
FoundIns(fields, n) ==
    IF n = 0 THEN <<>>
    ELSE IF "found_in" \in DOMAIN fields[n].metadata
            /\ fields[n].metadata["found_in"] \in FoundInPlaces
         THEN Append(FoundIns(fields, n - 1),
                     <<fields[n].name, fields[n].metadata["found_in"]>>)
         ELSE FoundIns(fields, n - 1)

\* lines 215-228: the value the declared location has for the field, or None
FoundValue(req, field_name, found_in) ==
    IF found_in = "json" THEN DictGet(JsonOf(req), field_name)
    ELSE AttrGet(req, REQUEST_ATTR_MAP(found_in), field_name)

\* line 213: the loop over found_ins
RECURSIVE ApplyFoundIns(_, _, _, _)
ApplyFoundIns(store, req, found_ins, n) ==
    IF n = 0 THEN store
    ELSE LET before == ApplyFoundIns(store, req, found_ins, n - 1)
             value == FoundValue(req, found_ins[n][1], found_ins[n][2])
         IN  IF value # None THEN SetItem(before, found_ins[n][1], value)
             ELSE before

\* lines 194-228: the mapping handed to schema.load
MergedData(req, schema) ==
    LET found_ins == FoundIns(schemaDefs[schema].fields, Len(schemaDefs[schema].fields))
    IN  ApplyFoundIns(OrdinaryMerge(req), req, found_ins, Len(found_ins))

\* schema.load(data) with unknown = EXCLUDE: a field is read under its key; a
\* required field that is absent and a null value are field-level errors
FieldError(field, store) ==
    IF Contains(store, FieldKey(field))
    THEN GetItem(store, FieldKey(field)) = None
    ELSE field.required

SchemaErrors(schema, store) ==
    {schemaDefs[schema].fields[i].name :
        i \in {j \in 1..Len(schemaDefs[schema].fields) :
                  FieldError(schemaDefs[schema].fields[j], store)}}

SchemaLoad(schema, store) ==
    LET present == {i \in 1..Len(schemaDefs[schema].fields) :
                       Contains(store, FieldKey(schemaDefs[schema].fields[i]))}
        names == {schemaDefs[schema].fields[i].name : i \in present}
    IN  [ok |-> SchemaErrors(schema, store) = {},
         errors |-> SchemaErrors(schema, store),
         obj |-> [nm \in names |->
                    GetItem(store, FieldKey(
                        schemaDefs[schema].fields[
                            CHOOSE i \in present :
                                schemaDefs[schema].fields[i].name = nm]))]]

\* mutant: the view is called whatever schema.load raised
ProceedsAlways(load) == TRUE

\* lines 232-234: the except clause is skipped when schema.load returns
Proceeds(load) == load.ok

NoResponse == [status |-> 0, errors |-> {}, route_docs |-> FALSE, by |-> "none"]

\* lines 235-242: the answer to a request whose data does not validate.
\* current_app._api_docs is read unguarded: when cache_api_docs never ran the
\* AttributeError leaves the view and Flask answers 500
ValidationFailure(a, req, load) ==
    IF ~a.has_api_docs
    THEN [status |-> 500, errors |-> {}, route_docs |-> FALSE,
          by |-> "AttributeError"]
    ELSE [status |-> 400, errors |-> load.errors,
          route_docs |-> (req.rule \in DOMAIN a._api_docs
                            /\ req.method \in DOMAIN a._api_docs[req.rule]
                            /\ a._api_docs[req.rule][req.method] # EmptyDict),
          by |-> "decorated_view"]

\* lines 245-249: func(input_obj=data, *args, **kwargs) or func(*args, **kwargs)
ViewCall(f, obj, req) ==
    [has_input_obj |-> f.declares_input_obj,
     input_obj |-> IF f.declares_input_obj THEN obj ELSE EmptyDict,
     kwargs |-> req.view_args]

NoRequest ==
    [method |-> "GET", rule |-> "/store", headers |-> <<>>, cookies |-> <<>>,
     args |-> <<>>, view_args |-> <<>>,
     body |-> [kind |-> "dict", pairs |-> <<>>, value |-> None],
     has_input_obj |-> FALSE, input_obj |-> EmptyDict]

NoLoad == [ok |-> FALSE, errors |-> {}, obj |-> EmptyDict]

ViewIdle ==
    /\ request = NoRequest /\ func = [declares_input_obj |-> FALSE]
    /\ viewPc = "idle" /\ data = <<>> /\ loaded = NoLoad
    /\ response = NoResponse /\ viewCalls = <<>>

-----------------------------------------------------------------------------
(* resources/store.py: the handlers' calls on StoreModel.query and db.session *)

\* StoreModel.query.get(store_id): the committed row with that primary key
QueryGet(rows, store_id) == {r \in rows : r.id = store_id}

\* StoreModel.query.all()
QueryAll(rows) == rows

EmptySession == [new |-> {}, deleted |-> {}]

\* db.session.add(store), line 39
SessionAdd(sess, store) == [sess EXCEPT !.new = @ \cup {store}]

\* mutant: the handler commits without db.session.delete(store)
SessionDeleteForgotten(sess, store) == sess

\* db.session.delete(store), line 24
SessionDelete(sess, store) == [sess EXCEPT !.deleted = @ \cup {store}]

\* what db.session.commit() can do with a pending insert: it goes through, or
\* raises IntegrityError (line 42: a store with that name exists) or another
\* SQLAlchemyError (line 45)
InsertOutcomes(rows, sess) ==
    IF \E s \in sess.new, r \in rows : s.name = r.name
    THEN {"IntegrityError", "SQLAlchemyError"}
    ELSE {"ok", "SQLAlchemyError"}

\* the rows after db.session.commit(): on "ok" the pending objects are flushed
\* (an insert gets the primary key the database picks), otherwise the
\* transaction is rolled back and the exception raised
Committed(rows, sess, outcome, new_id) ==
    IF outcome = "ok"
    THEN (rows \ sess.deleted) \cup {[id |-> new_id, name |-> s.name] : s \in sess.new}
    ELSE rows

\* IntegrityError is a subclass of SQLAlchemyError
IsInstance(exc, cls) ==
    \/ exc = cls
    \/ exc = "IntegrityError" /\ cls = "SQLAlchemyError"

\* mutant: the two except clauses in the other order
PostAbortStatusBroadFirst(exc) ==
    IF IsInstance(exc, "SQLAlchemyError") THEN 500
    ELSE IF IsInstance(exc, "IntegrityError") THEN 400
    ELSE 0

\* lines 42-46: the status StoreList.post aborts with
PostAbortStatus(exc) ==
    IF IsInstance(exc, "IntegrityError") THEN 400
    ELSE IF IsInstance(exc, "SQLAlchemyError") THEN 500
    ELSE 0

\* StoreModel.query.get_or_404(store_id): abort(404) when there is no such row
GetOr404(rows, store_id) ==
    IF QueryGet(rows, store_id) = {}
    THEN [status |-> 404, found |-> {}]
    ELSE [status |-> 200, found |-> QueryGet(rows, store_id)]

NoStoreReq == [op |-> "none", pc |-> "idle", store_id |-> 0, name |-> None]

NoLastReq ==
    [n |-> 0, op |-> "none", store_id |-> 0, name |-> None, status |-> 0,
     exc |-> None, ret |-> {}, before |-> {}]

\* the response of a request, with the session removed as the request ends
Completed(op, store_id, name, status, exc, ret) ==
    [n |-> lastReq.n + 1, op |-> op, store_id |-> store_id, name |-> name,
     status |-> status, exc |-> exc, ret |-> ret, before |-> table]

StoreIdle ==
    /\ table = {} /\ session = EmptySession /\ storeReq = NoStoreReq
    /\ lastReq = NoLastReq /\ storeLog = <<>>

-----------------------------------------------------------------------------
(* Each specification below runs one component; the others stay idle *)

CidIdle == _store = <<>> /\ cidLog = <<>>

DocsIdle == app = NewApp(EmptyDict, <<>>, EmptyDict) /\ docsPc = 0

-----------------------------------------------------------------------------
(* The make_schema_dict specification: a schema graph, then one call *)

MaxRecursionDepth == 3

PlainField(name) ==
    [name |-> name, nested |-> NoNested, required |-> FALSE, data_key |-> None,
     missing |-> Missing, default |-> Missing, metadata |-> EmptyDict]

NestedField(name, target) == [PlainField(name) EXCEPT !.nested = target]

FieldChoices(name) ==
    {PlainField(name), [PlainField(name) EXCEPT !.required = TRUE],
     [PlainField(name) EXCEPT !.default = "d"]}
    \cup {NestedField(name, t) : t \in SchemaIds \cup {SelfName}}

FieldLists ==
    {<<>>} \cup {<<f>> : f \in FieldChoices("f")}
           \cup {<<f, g>> : f \in FieldChoices("f"),
                            g \in {NestedField("g", t) : t \in SchemaIds}}

SchemaChoices == {[fields |-> fl, smores_example |-> None] : fl \in FieldLists}

NoCall == [schema |-> None, is_input |-> FALSE, max_depth |-> 0]
NoOutcome == [done |-> FALSE, ok |-> FALSE, dict |-> EmptyDict]

\* the schemas the other specifications use: S1 nests S2, S2 is flat
FixedSchemaDefs ==
    "S1" :> [fields |-> <<[PlainField("f") EXCEPT !.required = TRUE],
                          NestedField("g", "S2")>>,
             smores_example |-> None]
    @@ "S2" :> [fields |-> <<PlainField("f")>>, smores_example |-> "example"]

SchemaIdle ==
    schemaDefs = FixedSchemaDefs /\ schemaCall = NoCall /\ schemaOut = NoOutcome

SchemaInit ==
    /\ schemaDefs \in [SchemaIds -> SchemaChoices]
    /\ schemaCall = NoCall
    /\ schemaOut = NoOutcome
    /\ CidIdle /\ DocsIdle /\ StoreIdle /\ ViewIdle

MakeSchemaDict ==
    /\ ~schemaOut.done
    /\ \E schema \in SchemaIds, is_input \in BOOLEAN, max_depth \in 0..MaxRecursionDepth :
         LET r == make_schema_dict(schema, is_input, 0, max_depth)
         IN  /\ schemaCall' = [schema |-> schema, is_input |-> is_input,
                               max_depth |-> max_depth]
             /\ schemaOut' = [done |-> TRUE, ok |-> r.ok, dict |-> r.dict]
    /\ UNCHANGED <<schemaDefs, cidVars, docsVars, storeVars, viewVars>>

SchemaNext == MakeSchemaDict

SpecSchema == SchemaInit /\ [][SchemaNext]_vars

\* the schemas reachable from s through fields.Nested within n steps
RECURSIVE NestingChain(_, _)
NestingChain(s, n) ==
    IF n = 0 \/ s \notin SchemaIds THEN FALSE
    ELSE \E i \in 1..Len(schemaDefs[s].fields) :
            LET t == schemaDefs[s].fields[i].nested
            IN  t \in SchemaIds /\ (n = 1 \/ NestingChain(t, n - 1))

\* C8: the call terminates (returns a tree) for every schema graph, cyclic ones
\* included, and the tree has at most max_depth levels of nested 'schema'
\* entries; a nested field met at current_depth = max_depth has its type but
\* no 'schema' entry, so max_depth = 0 gives a tree with no 'schema' at all.
C8_BoundedDepth ==
    schemaOut.done =>
        /\ schemaOut.ok
        /\ SchemaLevels(schemaOut.dict) <= schemaCall.max_depth
        /\ NestingChain(schemaCall.schema, schemaCall.max_depth + 1)
              => SchemaLevels(schemaOut.dict) = schemaCall.max_depth
        /\ schemaCall.max_depth = 0 =>
              \A k \in DOMAIN schemaOut.dict :
                  /\ "type" \in DOMAIN schemaOut.dict[k]
                  /\ "schema" \notin DOMAIN schemaOut.dict[k]

\* a self-referential schema walked to the bound
C8_Witness ==
    /\ schemaOut.done
    /\ schemaCall.schema = "S1"
    /\ schemaCall.max_depth = 2
    /\ \E i \in 1..Len(schemaDefs["S1"].fields) :
          schemaDefs["S1"].fields[i].nested = "S1"
    /\ SchemaLevels(schemaOut.dict) = 2

-----------------------------------------------------------------------------
(* The documentation specification: routes are registered, init_app runs,    *)
(* and the first request makes cache_api_docs scan the rules one by one.     *)
(* docsPc: 0 before the scan, i while rule i is next, Len(url_map)+1 after.  *)

MaxRules == 2

RuleStrings == {"/store", "/store/<id>"}
Endpoints == {"e1", "e2"}
MethodSets == {{"GET", "HEAD", "OPTIONS"}, {"POST", "OPTIONS"},
               {"GET", "DELETE", "HEAD", "OPTIONS"}}
AllMethods == {"GET", "POST", "PUT", "PATCH", "DELETE", "HEAD", "OPTIONS"}

RuleChoices ==
    {[rule |-> r, endpoint |-> e, methods |-> m] :
        r \in RuleStrings, e \in Endpoints, m \in MethodSets}

RECURSIVE SeqsUpTo(_, _)
SeqsUpTo(S, n) ==
    IF n = 0 THEN {<<>>}
    ELSE SeqsUpTo(S, n - 1)
         \cup {Append(q, x) : q \in {q2 \in SeqsUpTo(S, n - 1) : Len(q2) = n - 1},
                               x \in S}

DocLines == << <<" ", "x", " ">>, <<"y", " ">> >>

ViewChoices(e) ==
    IF e = "e1"
    THEN {PlainView(<<>>), use_input_schema("S1", PlainView(DocLines)),
          use_output_schema("S2", use_input_schema("S1", PlainView(<<>>)))}
    ELSE {PlainView(DocLines), use_output_schema("S1", PlainView(<<>>))}

ConfigChoices ==
    {EmptyDict, "SMORES_CACHE_API_DOCS" :> FALSE,
     "SMORES_CACHE_API_DOCS" :> TRUE @@ "SMORES_RECURSION_DEPTH" :> 1}

DocsInit ==
    /\ \E config \in ConfigChoices, url_map \in SeqsUpTo(RuleChoices, MaxRules),
          e1 \in ViewChoices("e1"), e2 \in ViewChoices("e2") :
          app = init_app(NewApp(config, url_map, "e1" :> e1 @@ "e2" :> e2))
    /\ docsPc = 0
    /\ CidIdle /\ SchemaIdle /\ StoreIdle /\ ViewIdle

\* before_first_request: cache_api_docs starts, line 37
CacheApiDocsBegin ==
    /\ docsPc = 0
    /\ app.config["SMORES_CACHE_API_DOCS"]
    /\ app' = [app EXCEPT !.has_api_docs = TRUE, !._api_docs = EmptyDict]
    /\ docsPc' = 1
    /\ UNCHANGED <<cidVars, schemaVars, storeVars, viewVars>>

\* one pass of the loop of line 39
CacheApiDocsRule ==
    /\ docsPc \in 1..Len(app.url_map)
    /\ app' = [app EXCEPT !._api_docs = ScanRule(app, @, app.url_map[docsPc])]
    /\ docsPc' = docsPc + 1
    /\ UNCHANGED <<cidVars, schemaVars, storeVars, viewVars>>

DocsNext == CacheApiDocsBegin \/ CacheApiDocsRule

SpecDocs == DocsInit /\ [][DocsNext]_vars

HasEntry(docs, rule, method) == rule \in DOMAIN docs /\ method \in DOMAIN docs[rule]

\* route i is documented for this rule string and method
Documents(i, rule, method) ==
    /\ app.url_map[i].rule = rule
    /\ app.view_functions[app.url_map[i].endpoint]._uses_smores
    /\ \E n \in 1..Len(possible_methods) : possible_methods[n] = method
    /\ method \in app.url_map[i].methods

\* C5: once cache_api_docs has scanned rules 1..n, the map has an entry for
\* (rule, method) iff one of those routes has that rule string, a view marked
\* by use_input_schema or use_output_schema, and accepts method, one of GET,
\* POST, PUT, PATCH, DELETE; so no entry is lost as later methods and rules
\* are added, and at the end the map holds exactly the decorated routes.
C5_DocsMapExact ==
    docsPc >= 1 =>
        /\ app.has_api_docs
        /\ \A rule \in RuleStrings \cup DOMAIN app._api_docs, method \in AllMethods :
              HasEntry(app._api_docs, rule, method)
                 <=> \E i \in 1..(docsPc - 1) : Documents(i, rule, method)
        /\ \A rule \in DOMAIN app._api_docs : DOMAIN app._api_docs[rule] \subseteq AllMethods

\* two routes share a rule string with different methods, one view undecorated
\* elsewhere; the finished map has both methods under the rule
C5_Witness ==
    /\ docsPc = Len(app.url_map) + 1
    /\ Len(app.url_map) = 3
    /\ app.url_map[1].rule = "/store" /\ app.url_map[2].rule = "/store"
    /\ app.url_map[1].endpoint # app.url_map[2].endpoint
    /\ app.url_map[1].methods = {"POST", "OPTIONS"}
    /\ app.url_map[2].methods = {"GET", "DELETE", "HEAD", "OPTIONS"}
    /\ DOMAIN app._api_docs = {"/store"}
    /\ DOMAIN app._api_docs["/store"] = {"GET", "POST", "DELETE"}

-----------------------------------------------------------------------------
(* The store specification: requests on /store and /store/<id>, one at a    *)
(* time; a handler that commits takes two steps, so that the pending state  *)
(* of the session shows.                                                    *)

MaxRequests == 4
MaxId == 2

StoreIds == 1..MaxId
StoreNames == {"n1", "n2"}

StoreInit == StoreIdle /\ CidIdle /\ SchemaIdle /\ DocsIdle /\ ViewIdle

CanBegin == storeReq.pc = "idle" /\ lastReq.n < MaxRequests

\* Store.get, lines 18-20
StoreGet ==
    /\ CanBegin
    /\ \E store_id \in StoreIds :
         LET r == GetOr404(table, store_id)
         IN  lastReq' = Completed("GET /store/<id>", store_id, None, r.status,
                                  None, r.found)
    /\ UNCHANGED <<table, session, storeReq, storeLog, cidVars, schemaVars, docsVars, viewVars>>

\* StoreList.get, lines 31-32
StoreListGet ==
    /\ CanBegin
    /\ lastReq' = Completed("GET /store", 0, None, 200, None, QueryAll(table))
    /\ UNCHANGED <<table, session, storeReq, storeLog, cidVars, schemaVars, docsVars, viewVars>>

\* Store.delete, lines 23-24: the lookup, and the delete left pending
StoreDeleteBegin ==
    /\ CanBegin
    /\ \E store_id \in StoreIds :
         LET r == GetOr404(table, store_id)
         IN  IF r.status = 404
             THEN /\ lastReq' = Completed("DELETE", store_id, None, 404, None, {})
                  /\ UNCHANGED <<session, storeReq>>
             ELSE /\ session' = SessionDelete(session, CHOOSE s \in r.found : TRUE)
                  /\ storeReq' = [op |-> "DELETE", pc |-> "commit",
                                  store_id |-> store_id, name |-> None]
                  /\ UNCHANGED lastReq
    /\ UNCHANGED <<table, storeLog, cidVars, schemaVars, docsVars, viewVars>>

\* Store.delete, lines 25-26: the commit; nothing catches a database error
StoreDeleteCommit ==
    /\ storeReq.op = "DELETE" /\ storeReq.pc = "commit"
    /\ \E outcome \in {"ok", "SQLAlchemyError"} :
         /\ table' = Committed(table, session, outcome, 0)
         /\ lastReq' = Completed("DELETE", storeReq.store_id, None,
                                 IF outcome = "ok" THEN 200 ELSE 500,
                                 IF outcome = "ok" THEN None ELSE outcome, {})
         /\ storeLog' = IF outcome = "ok"
                        THEN Append(storeLog, [ev |-> "deleted",
                                               store_id |-> storeReq.store_id,
                                               name |-> None])
                        ELSE storeLog
    /\ session' = EmptySession
    /\ storeReq' = NoStoreReq
    /\ UNCHANGED <<cidVars, schemaVars, docsVars, viewVars>>

\* StoreList.post, lines 36-39: the new store, added to the session
StoreListPostBegin ==
    /\ CanBegin
    /\ Cardinality(table) < MaxId
    /\ \E name \in StoreNames :
         /\ session' = SessionAdd(session, [id |-> 0, name |-> name])
         /\ storeReq' = [op |-> "POST", pc |-> "commit", store_id |-> 0,
                         name |-> name]
    /\ UNCHANGED <<table, lastReq, storeLog, cidVars, schemaVars, docsVars, viewVars>>

\* StoreList.post, lines 40-49: the commit, then abort(400), abort(500) or
\* return store
StoreListPostCommit ==
    /\ storeReq.op = "POST" /\ storeReq.pc = "commit"
    /\ \E outcome \in InsertOutcomes(table, session),
          new_id \in StoreIds \ {r.id : r \in table} :
         /\ table' = Committed(table, session, outcome, new_id)
         /\ IF outcome = "ok"
            THEN /\ lastReq' = Completed("POST", new_id, storeReq.name, 200, None,
                                         {[id |-> new_id, name |-> storeReq.name]})
                 /\ storeLog' = Append(storeLog, [ev |-> "created",
                                                  store_id |-> new_id,
                                                  name |-> storeReq.name])
            ELSE /\ lastReq' = Completed("POST", 0, storeReq.name,
                                         PostAbortStatus(outcome), outcome, {})
                 /\ UNCHANGED storeLog
    /\ session' = EmptySession
    /\ storeReq' = NoStoreReq
    /\ UNCHANGED <<cidVars, schemaVars, docsVars, viewVars>>

StoreNext ==
    \/ StoreGet
    \/ StoreListGet
    \/ StoreDeleteBegin
    \/ StoreDeleteCommit
    \/ StoreListPostBegin
    \/ StoreListPostCommit

SpecStore == StoreInit /\ [][StoreNext]_vars

EventsOn(store_id) == {i \in 1..Len(storeLog) : storeLog[i].store_id = store_id}

LastEventOn(store_id) ==
    storeLog[CHOOSE i \in EventsOn(store_id) : \A j \in EventsOn(store_id) : j <= i]

Live(store_id) == EventsOn(store_id) # {} /\ LastEventOn(store_id).ev = "created"

LiveStores ==
    {[id |-> i, name |-> LastEventOn(i).name] : i \in {j \in StoreIds : Live(j)}}

-----------------------------------------------------------------------------
(* The view specification: an application with one view wrapped by           *)
(* use_input_schema(S1) takes one request; decorated_view merges, validates *)
(* and calls the view.                                                       *)

ka == <<"a">>
kA == <<"A">>

\* the value a location carries under a key names both
Val(tag, key) == IF key = ka THEN tag \o ".a" ELSE tag \o ".A"

Pairs(tag, keys) == [i \in 1..Len(keys) |-> <<keys[i], Val(tag, keys[i])>>]

HeaderChoices == {Pairs("h", ks) : ks \in {<<>>, <<ka>>, <<kA>>, <<ka, kA>>, <<kA, ka>>}}
CookieChoices == {Pairs("c", ks) : ks \in {<<>>, <<ka>>, <<kA>>}}
ArgsChoices == {Pairs("q", ks) : ks \in {<<>>, <<ka>>, <<kA>>}}
ViewArgsChoices == {Pairs("p", ks) : ks \in {<<>>, <<ka>>}}
BodyChoices ==
    {[kind |-> "dict", pairs |-> ps, value |-> None] :
        ps \in {Pairs("j", ks) : ks \in {<<>>, <<ka>>, <<kA>>, <<kA, ka>>}}
                \cup {<<<<ka, None>>>>}}
    \cup {[kind |-> "other", pairs |-> <<>>, value |-> "j.list"],
          [kind |-> "invalid", pairs |-> <<>>, value |-> None]}

ViewMethods == {"GET", "POST", "PUT"}

FieldFoundIn(name, required, place) ==
    [PlainField(name) EXCEPT !.required = required,
                             !.metadata = IF place = None THEN EmptyDict
                                          ELSE "found_in" :> place]

\* the input schema: field a, required, and perhaps a field A beside it
InputFieldLists ==
    {<<FieldFoundIn(ka, TRUE, p)>> : p \in FoundInPlaces \cup {None, "body"}}
    \cup {<<FieldFoundIn(ka, TRUE, p), FieldFoundIn(kA, FALSE, q)>> :
              p \in {None, "query", "json"}, q \in {None, "header", "cookie"}}

ViewInit ==
    /\ \E fl \in InputFieldLists :
          schemaDefs = "S1" :> [fields |-> fl, smores_example |-> None]
                       @@ "S2" :> FixedSchemaDefs["S2"]
    /\ schemaCall = NoCall /\ schemaOut = NoOutcome
    /\ \E config \in {EmptyDict, "SMORES_CACHE_API_DOCS" :> FALSE} :
          app = init_app(NewApp(config,
                    <<[rule |-> "/store", endpoint |-> "e1",
                       methods |-> {"GET", "POST", "PUT", "HEAD", "OPTIONS"}]>>,
                    "e1" :> use_input_schema("S1", PlainView(<<>>))))
    /\ docsPc = 0
    /\ \E m \in ViewMethods, h \in HeaderChoices, c \in CookieChoices,
          q \in ArgsChoices, p \in ViewArgsChoices, b \in BodyChoices :
          request = [NoRequest EXCEPT !.method = m, !.headers = h, !.cookies = c,
                                      !.args = q, !.view_args = p, !.body = b]
    /\ func \in [declares_input_obj : BOOLEAN]
    /\ viewPc = "dispatch"
    /\ data = <<>> /\ loaded = NoLoad /\ response = NoResponse /\ viewCalls = <<>>
    /\ CidIdle /\ StoreIdle

\* the request is dispatched: before_first_request runs cache_api_docs when
\* init_app registered it; then lines 194-228, or BadRequest from get_json
Merge ==
    /\ viewPc = "dispatch"
    /\ app' = IF app.config["SMORES_CACHE_API_DOCS"] THEN cache_api_docs(app) ELSE app
    /\ IF BodyUnreadable(request)
       THEN /\ response' = [NoResponse EXCEPT !.status = 400, !.by = "get_json"]
            /\ viewPc' = "done"
            /\ UNCHANGED data
       ELSE /\ data' = MergedData(request, "S1")
            /\ viewPc' = "merged"
            /\ UNCHANGED response
    /\ UNCHANGED <<request, func, loaded, viewCalls, docsPc, schemaVars, cidVars,
                   storeVars>>

\* lines 230-244: schema.load; the 400 answer, or request.input_obj = data
Validate ==
    /\ viewPc = "merged"
    /\ loaded' = SchemaLoad("S1", data)
    /\ IF Proceeds(loaded')
       THEN /\ request' = [request EXCEPT !.has_input_obj = TRUE,
                                          !.input_obj = loaded'.obj]
            /\ viewPc' = "valid"
            /\ UNCHANGED response
       ELSE /\ response' = ValidationFailure(app, request, loaded')
            /\ viewPc' = "done"
            /\ UNCHANGED request
    /\ UNCHANGED <<func, data, viewCalls, docsVars, schemaVars, cidVars, storeVars>>

\* lines 245-249: the wrapped view function runs and answers
CallView ==
    /\ viewPc = "valid"
    /\ viewCalls' = Append(viewCalls, ViewCall(func, request.input_obj, request))
    /\ response' = [NoResponse EXCEPT !.status = 200, !.by = "func"]
    /\ viewPc' = "done"
    /\ UNCHANGED <<request, func, data, loaded, docsVars, schemaVars, cidVars,
                   storeVars>>

ViewNext == Merge \/ Validate \/ CallView

SpecView == ViewInit /\ [][ViewNext]_vars

\* C1 as claimed: whenever the merged data fails validation the answer is 400
\* with the field-level errors, in every configuration.
C1_InvalidAlways400 ==
    viewPc = "done" /\ loaded # NoLoad /\ ~loaded.ok =>
        /\ response.status = 400
        /\ response.errors = loaded.errors

\* C2: the view function is called at most once, only after schema.load has
\* succeeded, with request.input_obj the loaded object, which is also what the
\* view receives as input_obj when it declares the parameter; a request that
\* fails validation never reaches it.
C2_ViewAfterValidation ==
    /\ Len(viewCalls) <= 1
    /\ Len(viewCalls) = 1 =>
          /\ loaded.ok
          /\ loaded = SchemaLoad("S1", data)
          /\ request.has_input_obj /\ request.input_obj = loaded.obj
          /\ viewCalls[1].has_input_obj = func.declares_input_obj
          /\ func.declares_input_obj => viewCalls[1].input_obj = loaded.obj
    /\ viewPc = "valid" => loaded.ok /\ request.input_obj = loaded.obj
    /\ (loaded # NoLoad /\ ~loaded.ok) => viewCalls = <<>> /\ viewPc = "done"
    /\ response.by = "get_json" => viewCalls = <<>>

\* a valid request reached a view that declares input_obj
C2_Witness ==
    /\ viewPc = "done"
    /\ Len(viewCalls) = 1
    /\ func.declares_input_obj
    /\ viewCalls[1].input_obj = (ka :> "q.a")

\* the five locations in the order of the merge, as the request carries them;
\* the JSON body counts for POST, PUT and PATCH only, and a body that is not
\* an object counts as the one key 'json_body'
LocationOrder == <<"header", "cookie", "query", "path", "json">>

Carried(place) ==
    CASE place = "header" -> request.headers
      [] place = "cookie" -> request.cookies
      [] place = "query" -> request.args
      [] place = "path" -> request.view_args
      [] place = "json" ->
            IF request.method \notin {"POST", "PUT", "PATCH"} THEN <<>>
            ELSE IF request.body.kind = "dict" THEN request.body.pairs
            ELSE <<<<JsonBodyKey, request.body.value>>>>

\* the values a location carries under keys case-equal to key
ValuesAt(place, key) ==
    {Carried(place)[i][2] :
        i \in {j \in 1..Len(Carried(place)) : CaseEqual(Carried(place)[j][1], key)}}

Carriers(key) == {n \in 1..Len(LocationOrder) : ValuesAt(LocationOrder[n], key) # {}}

LastCarrier(key) ==
    LocationOrder[CHOOSE n \in Carriers(key) : \A m \in Carriers(key) : m <= n]

HasMerged == viewPc \in {"merged", "valid", "done"} /\ response.by # "get_json"

DeclaredFoundIns ==
    FoundIns(schemaDefs["S1"].fields, Len(schemaDefs["S1"].fields))

\* C9: with no found_in declared, the value handed to validation under a key
\* is the one of the last of header, cookie, query, path, JSON body that
\* carries the key in any case; the body takes part for POST, PUT, PATCH
\* only, and a body that is no object is merged as the key 'json_body'.
C9_MergeOrder ==
    HasMerged /\ DeclaredFoundIns = <<>> =>
        \A key \in {ka, kA, JsonBodyKey} :
            IF Carriers(key) = {} THEN ~Contains(data, key)
            ELSE GetItem(data, key) \in ValuesAt(LastCarrier(key), key)

\* all five locations carry the key and the body wins; the same request sent
\* with GET would stop at the path
C9_Witness ==
    /\ viewPc = "merged" /\ DeclaredFoundIns = <<>>
    /\ request.method = "PUT"
    /\ Carriers(ka) = 1..5
    /\ request.headers = Pairs("h", <<kA, ka>>)
    /\ GetItem(data, kA) = "j.a"

\* the value the declared location has for a field: what its get() returns
ValueIn(place, name) ==
    IF place = "header" THEN HeadersGet(Carried(place), name)
    ELSE DictGet(Carried(place), name)

FoundInHonoured(name, place) ==
    IF ValueIn(place, name) # None
    THEN GetItem(data, name) = ValueIn(place, name)
    ELSE GetItem(data, name) = GetItem(OrdinaryMerge(request), name)

\* C10 as claimed: for every field declared with found_in = L the value handed
\* to validation is the one location L has for it, and the value of the
\* ordinary merge when L has none.
C10_FoundInAlwaysWins ==
    HasMerged =>
        \A n \in 1..Len(DeclaredFoundIns) :
            FoundInHonoured(DeclaredFoundIns[n][1], DeclaredFoundIns[n][2])

\* no other field that declares found_in has a name case-equal to this one's
AloneInItsCase(n) ==
    \A m \in 1..Len(DeclaredFoundIns) :
        m # n => ~CaseEqual(DeclaredFoundIns[m][1], DeclaredFoundIns[n][1])

\* C10 amended: the same, for a field whose name is not case-equal to the name
\* of another field that declares found_in.
C10_FoundInWinsAlone ==
    HasMerged =>
        \A n \in 1..Len(DeclaredFoundIns) :
            AloneInItsCase(n) =>
                FoundInHonoured(DeclaredFoundIns[n][1], DeclaredFoundIns[n][2])

\* the field is declared in the query string, every later location carries
\* it too, and validation is handed the query string's value
C10_Witness ==
    /\ viewPc = "merged"
    /\ DeclaredFoundIns = <<<<ka, "query">>>>
    /\ request.method = "POST"
    /\ ValueIn("query", ka) = "q.a"
    /\ ValueIn("path", ka) = "p.a"
    /\ ValueIn("json", ka) = "j.a"
    /\ GetItem(OrdinaryMerge(request), ka) = "j.a"
    /\ GetItem(data, ka) = "q.a"

-----------------------------------------------------------------------------
(* The CaseInsensitiveDict specification: __setitem__ and __delitem__ calls *)

MaxOps == 3

CidKeys == {<<"A">>, <<"a">>, <<"a", "B">>, <<"A", "b">>, <<"A", "B">>}
CidValues == {"v1", "v2"}

CidInit == CidIdle /\ SchemaIdle /\ DocsIdle /\ StoreIdle /\ ViewIdle

CidSetItem ==
    /\ Len(cidLog) < MaxOps
    /\ \E key \in CidKeys, value \in CidValues :
         /\ _store' = SetItem(_store, key, value)
         /\ cidLog' = Append(cidLog, [op |-> "set", key |-> key, value |-> value])
    /\ UNCHANGED <<schemaVars, docsVars, storeVars, viewVars>>

CidDelItem ==
    /\ Len(cidLog) < MaxOps
    /\ \E key \in CidKeys :
         /\ _store' = DelItem(_store, key)
         /\ cidLog' = Append(cidLog, [op |-> "del", key |-> key, value |-> None])
    /\ UNCHANGED <<schemaVars, docsVars, storeVars, viewVars>>

CidNext == CidSetItem \/ CidDelItem

SpecCid == CidInit /\ [][CidNext]_vars

-----------------------------------------------------------------------------
(* What the history says about a key: the calls made under case-equal keys *)

\* indices of the calls whose key is case-equal to k
CallsOn(k) == {i \in 1..Len(cidLog) : CaseEqual(cidLog[i].key, k)}

LastCallOn(k) == cidLog[CHOOSE i \in CallsOn(k) : \A j \in CallsOn(k) : j <= i]

\* some set under a key case-equal to k has not since been deleted
LiveSet(k) == CallsOn(k) # {} /\ LastCallOn(k).op = "set"

\* C3: lookup and containment are case-insensitive: cid[k] is the value of the
\* most recent set under any key case-equal to k that was not deleted since,
\* and KeyError (k not in cid) exactly when there is no such set.
C3_CaseInsensitiveLookup ==
    \A k \in CidKeys :
        /\ LiveSet(k) => GetItem(_store, k) = LastCallOn(k).value
        /\ ~LiveSet(k) => GetItem(_store, k) = KeyError
        /\ Contains(_store, k) <=> LiveSet(k)

\* a key set under one case, set again under another and deleted under a
\* third is gone under all of them, while a key of another case class stays
C3_Witness ==
    /\ Len(cidLog) = 3
    /\ cidLog[1] = [op |-> "set", key |-> <<"a", "B">>, value |-> "v1"]
    /\ cidLog[2] = [op |-> "set", key |-> <<"A", "b">>, value |-> "v2"]
    /\ cidLog[3] = [op |-> "del", key |-> <<"A", "B">>, value |-> None]
    /\ GetItem(_store, <<"a", "B">>) = KeyError
    /\ ~Contains(_store, <<"A", "b">>)

\* C4: one entry per distinct lowercased key: len(cid) is the number of
\* distinct lowercased keys present, and iteration yields each entry's key in
\* the case of the last set of that entry.
C4_OneEntryPerLoweredKey ==
    /\ CidLen(_store) = Cardinality({lower(k) : k \in {k2 \in CidKeys : LiveSet(k2)}})
    /\ \A i, j \in 1..Len(_store) : Iter(_store)[i] = Iter(_store)[j] => i = j
    /\ \A i \in 1..Len(_store) :
          /\ LiveSet(Iter(_store)[i])
          /\ Iter(_store)[i] = LastCallOn(Iter(_store)[i]).key
    /\ \A k \in CidKeys : LiveSet(k) =>
          \E i \in 1..Len(_store) : CaseEqual(Iter(_store)[i], k)

\* 'a' is set, then 'A' replaces it: one entry, listed as 'A'
C4_Witness ==
    /\ Len(cidLog) >= 2
    /\ cidLog[1] = [op |-> "set", key |-> <<"a">>, value |-> "v1"]
    /\ cidLog[2] = [op |-> "set", key |-> <<"A">>, value |-> "v2"]
    /\ Len(cidLog) = 2
    /\ Iter(_store) = << <<"A">> >>
    /\ CidLen(_store) = 1
====
